---- MODULE Spec2Model ----
(***************************************************************************)
(* Model of dispatch_bot.py: text acquisition (pdfplumber text layer with  *)
(* OCR fallback through PyMuPDF + pytesseract), the OpenAI extraction call *)
(* and the two Telegram attachment handlers with their temporary files.    *)
(*                                                                         *)
(* Text is kept run-length encoded: a string is a sequence of chunks, each *)
(* chunk a run of n characters of one class ("ws" whitespace, "layer" text *)
(* of page p's text layer, "ocr" text recognised on page p, "marker" the   *)
(* literal "--- Page p ---").  Lengths, strip() and concatenation are      *)
(* computed on that encoding exactly as Python computes them on strings.   *)
(***************************************************************************)
EXTENDS Integers, Sequences, FiniteSets, TLC

\* ------------------------------------------------------------- bounds
\* Largest number of pages of a PDF drawn as input.
MaxPages == 3
\* Number of chat events handled (possibly interleaved) in one run.
NumEvents == 2

\* ------------------------------------------------- program constants
\* dispatch_bot.py:80   if len(text.strip()) < 100
MinTextChars == 100
\* dispatch_bot.py:194 and :221   if not text or len(text) < 50
MinViableChars == 50

\* ------------------------------------------------------------ strings
WS(n) == [c |-> "ws", p |-> 0, n |-> n]
Txt(src, p, n) == [c |-> src, p |-> p, n |-> n]

\* Number of decimal digits of page number p (pages stay below 100 here).
Digits(p) == IF p < 10 THEN 1 ELSE 2

\* "--- Page p ---": 9 + digits + 4 characters.
Marker(p) == [c |-> "marker", p |-> p, n |-> 13 + Digits(p)]

EmptyStr == <<>>

\* s + t : adjacent whitespace runs merge into one run.
Cat(s, t) ==
  IF s = <<>> THEN t
  ELSE IF t = <<>> THEN s
  ELSE IF s[Len(s)].c = "ws" /\ t[1].c = "ws"
       THEN SubSeq(s, 1, Len(s) - 1) \o <<WS(s[Len(s)].n + t[1].n)>> \o Tail(t)
       ELSE s \o t

RECURSIVE StrLen(_)
\* len(s)
StrLen(s) == IF s = <<>> THEN 0 ELSE s[1].n + StrLen(Tail(s))

RECURSIVE LStrip(_)
LStrip(s) == IF s # <<>> /\ s[1].c = "ws" THEN LStrip(Tail(s)) ELSE s

RECURSIVE RStrip(_)
RStrip(s) ==
  IF s # <<>> /\ s[Len(s)].c = "ws" THEN RStrip(SubSeq(s, 1, Len(s) - 1)) ELSE s

\* s.strip()
Strip(s) == RStrip(LStrip(s))

HasChunk(s, ch) == \E i \in 1..Len(s) : s[i] = ch

\* ------------------------------------------- what the libraries yield
\* Outcome of page.extract_text() on a page:
\*   "raise" the call raises, "none" it returns None or "",
\*   "pad"   99 characters of text inside leading and trailing whitespace,
\*   "long"  exactly 100 characters of text.
LayerKinds == {"raise", "none", "pad", "long"}

\* Outcome of rasterising a page and recognising it:
\*   "rasterfail" get_pixmap / tobytes / the png write raises,
\*   "ocrfail"    Image.open or pytesseract raises,
\*   "blank"      pytesseract returns only whitespace,
\*   "text"       50 recognised characters followed by a newline.
\* A photo sent as such yields "ocrfail", "text" or
\*   "short"      49 recognised characters inside whitespace.
OcrKinds == {"rasterfail", "ocrfail", "blank", "text"}

\* page.extract_text() or ""   (line 73), for a page that does not raise
LayerText(kind, p) ==
  CASE kind = "pad"  -> <<WS(2), Txt("layer", p, 99), WS(3)>>
    [] kind = "long" -> <<Txt("layer", p, 100)>>
    [] OTHER         -> EmptyStr

\* pytesseract.image_to_string(image, lang='eng')   (line 56)
OcrRaw(kind, p) ==
  CASE kind = "blank" -> <<WS(2)>>
    [] kind = "short" -> <<WS(1), Txt("ocr", p, 49), WS(1)>>
    [] kind = "text"  -> <<Txt("ocr", p, 50), WS(1)>>
    [] OTHER          -> EmptyStr

\* ------------------------------------------------------------- files
\* An attachment: a PDF (its pages) or an image (its OCR outcome).
PdfAtt(pages) == [kind |-> "pdf", pages |-> pages, ocr |-> "none"]
ImgAtt(k) == [kind |-> "img", pages |-> <<>>, ocr |-> k]
NoAtt == [kind |-> "none", pages |-> <<>>, ocr |-> "none"]

Page(l, o) == [layer |-> l, ocr |-> o]
PageSet == {Page(l, o) : l \in LayerKinds, o \in OcrKinds}

\* All sequences over S of length 0..n.
SeqsUpTo(S, n) == UNION {[1..k -> S] : k \in 0..n}

\* --------------------------------------------------- text acquisition
\* extract_text_from_image: any exception (missing or unreadable file,
\* OCR failure) is caught and yields ""; otherwise the stripped OCR text.
\* p tags the recognised text with the page it came from (0 for a photo).
extract_text_from_image(att, p) ==
  IF att.kind # "img" \/ att.ocr = "ocrfail"
  THEN EmptyStr
  ELSE Strip(OcrRaw(att.ocr, p))

RECURSIVE LayerLoop(_, _, _)
\* for page in pdf.pages: text += page.extract_text() or ""
\* The try encloses the whole loop: a page that raises ends the loop and
\* the text gathered so far is kept.  Pages are numbered from 1 here.
LayerLoop(pages, i, text) ==
  IF i > Len(pages) THEN text
  ELSE IF pages[i].layer = "raise" THEN text
  ELSE LayerLoop(pages, i + 1, Cat(text, LayerText(pages[i].layer, i)))

\* Lines 67-76: pdfplumber.open raises on a missing or non-PDF file.
DirectText(att) ==
  IF att.kind # "pdf" THEN EmptyStr ELSE LayerLoop(att.pages, 1, EmptyStr)

\* text += f"\n--- Page {page_num + 1} ---\n{page_text}\n"
PageBlock(p, pageText) ==
  Cat(Cat(<<WS(1), Marker(p), WS(1)>>, pageText), <<WS(1)>>)

RECURSIVE OcrLoop(_, _, _)
\* for page_num in range(len(doc)): rasterise, OCR, append.  The try
\* encloses the whole loop: a page whose rasterisation raises ends it.
\* acc = [text, pages] : the text so far and the pages OCR was run on.
OcrLoop(pages, i, acc) ==
  IF i > Len(pages) THEN acc
  ELSE IF pages[i].ocr = "rasterfail" THEN acc
  ELSE OcrLoop(pages, i + 1,
         [text  |-> Cat(acc.text,
                        PageBlock(i, extract_text_from_image(ImgAtt(pages[i].ocr), i))),
          pages |-> Append(acc.pages, i)])

\* extract_text_from_pdf_with_ocr: fitz.open raises on a missing file.
extract_text_from_pdf_with_ocr(att) ==
  IF att.kind # "pdf"
  THEN [text |-> EmptyStr, pages |-> <<>>]
  ELSE OcrLoop(att.pages, 1, [text |-> EmptyStr, pages |-> <<>>])

\* The fallback test of line 80.
NeedsOcr(text) == StrLen(Strip(text)) < MinTextChars

\* Mutant of extract_text_from_pdf: the fallback test reads <= 100.
extract_text_from_pdf_le(att) ==
  LET direct == DirectText(att)
      ocr == extract_text_from_pdf_with_ocr(att)
  IN IF StrLen(Strip(direct)) <= MinTextChars
     THEN [text |-> Strip(ocr.text), fallback |-> 1, ocrPages |-> ocr.pages]
     ELSE [text |-> Strip(direct), fallback |-> 0, ocrPages |-> <<>>]

\* extract_text_from_pdf: the returned text, how many times the OCR
\* fallback was entered and the pages extract_text_from_image ran on.
extract_text_from_pdf(att) ==
  LET direct == DirectText(att)
      ocr == extract_text_from_pdf_with_ocr(att)
  IN IF NeedsOcr(direct)
     THEN [text |-> Strip(ocr.text), fallback |-> 1, ocrPages |-> ocr.pages]
     ELSE [text |-> Strip(direct), fallback |-> 0, ocrPages |-> <<>>]

\* ------------------------------------------------- the model service
\* Mutant of extract_dispatch_info_with_ai: a failed request is retried once.
extract_dispatch_info_with_ai_retry(text, ok) ==
  [requests |-> IF ok THEN 1 ELSE 2, raised |-> ~ok]

\* extract_dispatch_info_with_ai: one chat.completions.create request with
\* the prompt built around text; ok is whether the service answers with
\* content.  A failure (or a reply without content) raises to the caller.
extract_dispatch_info_with_ai(text, ok) ==
  [requests |-> 1, raised |-> ~ok]

\* ------------------------------------------------------------ events
Events == 1..NumEvents

\* One text-layer PDF of exactly 100 characters.
TextPdf == PdfAtt(<<Page("long", "blank")>>)

\* A scanned PDF of n pages on which OCR recognises nothing.
BlankScan(n) == PdfAtt([i \in 1..n |-> Page("none", "blank")])

DocInput(name, att) == [kind |-> "doc", name |-> name, att |-> att]
PhotoInput(id, k) == [kind |-> "photo", name |-> id, att |-> ImgAtt(k)]

\* The attachments events are drawn from: documents under one declared
\* file name, photos under one transport file identifier.
InputSeq ==
  << DocInput("rc.pdf", TextPdf),
     DocInput("rc.pdf", BlankScan(4)),
     DocInput("rc.pdf", BlankScan(1)),
     PhotoInput("AgAD1", "ocrfail"),
     PhotoInput("AgAD1", "short"),
     PhotoInput("AgAD1", "text") >>

Inputs == {InputSeq[i] : i \in 1..Len(InputSeq)}

\* file_path = f"temp_{file_name}"  /  f"temp_{file.file_id}.jpg"
FilePath(inp) ==
  IF inp.kind = "doc" THEN <<"temp_", inp.name>> ELSE <<"temp_", inp.name, ".jpg">>

Paths == {FilePath(i) : i \in Inputs}

NoFile == [owner |-> 0, att |-> NoAtt]

AckMsg(kind) == IF kind = "doc" THEN "ack_pdf" ELSE "ack_image"
NoticeMsg(kind) == IF kind = "doc" THEN "could_not_extract_pdf" ELSE "could_not_extract_image"
ErrorMsg(kind) == IF kind = "doc" THEN "error" ELSE "error_processing_image"
ResultMsg == "result"

VARIABLES
  pdf,        \* SpecPdf: the PDF given to extract_text_from_pdf
  out,        \* SpecPdf: what extract_text_from_pdf did with it
  input,      \* per event: attachment kind, declared name / file id, content
  fs,         \* the working directory: path -> file (owner = writing event)
  pc,         \* per event: the await its handler is suspended at
  pending,    \* per event: the reply in flight
  text,       \* per event: the acquired text
  modelCalls, \* per event: completion requests issued
  replies,    \* per event: replies in order, each with whether it was sent
  steps,      \* per event: the protocol steps run, in order
  readFrom,   \* per event: the event whose file its text acquisition read
  failed      \* per event: the failures that occurred

vars == <<pdf, out, input, fs, pc, pending, text, modelCalls, replies, steps,
          readFrom, failed>>

handlerVars == <<input, fs, pc, pending, text, modelCalls, replies, steps,
                 readFrom, failed>>

NoOut == [done |-> FALSE, text |-> EmptyStr, fallback |-> 0, ocrPages |-> <<>>]

\* A photo's content is determined by its transport file identifier.
SameIdSamePhoto(inp) ==
  \A a, b \in Events :
    (inp[a].kind = "photo" /\ inp[b].kind = "photo" /\ inp[a].name = inp[b].name)
      => inp[a].att = inp[b].att

\* Events are interchangeable: their inputs are drawn up to a renaming of
\* the events, in the order of InputSeq.
InitHandlers ==
  /\ \E ix \in [Events -> 1..Len(InputSeq)] :
       /\ \A a, b \in Events : a <= b => ix[a] <= ix[b]
       /\ input = [e \in Events |-> InputSeq[ix[e]]]
  /\ SameIdSamePhoto(input)
  /\ fs = [p \in Paths |-> NoFile]
  /\ pc = [e \in Events |-> "new"]
  /\ pending = [e \in Events |-> "none"]
  /\ text = [e \in Events |-> EmptyStr]
  /\ modelCalls = [e \in Events |-> 0]
  /\ replies = [e \in Events |-> <<>>]
  /\ steps = [e \in Events |-> <<>>]
  /\ readFrom = [e \in Events |-> 0]
  /\ failed = [e \in Events |-> {}]

Init ==
  /\ pdf = <<>>
  /\ out = NoOut
  /\ InitHandlers

\* ---------------------------------------------------------- handlers
\* if not text or len(text) < 50
TooShort(t) == t = EmptyStr \/ StrLen(t) < MinViableChars

\* Line 192 / 219: the handler's text acquisition on the file at its path.
AcquireText(kind, file) ==
  IF kind = "doc"
  THEN extract_text_from_pdf(file.att).text
  ELSE extract_text_from_image(file.att, 0)

\* Mutant of TryBody: the model is called before the length gate is applied.
TryBodyModelFirst(kind, file, modelOk) ==
  LET t == AcquireText(kind, file)
      ai == extract_dispatch_info_with_ai(t, modelOk)
  IN IF ai.raised
     THEN [text |-> t, requests |-> ai.requests, failure |-> {"model"},
           reply |-> ErrorMsg(kind), pc |-> "erroring",
           steps |-> <<"acquire", "extract">>]
     ELSE [text |-> t, requests |-> ai.requests, failure |-> {},
           reply |-> IF TooShort(t) THEN NoticeMsg(kind) ELSE ResultMsg,
           pc |-> "relaying",
           steps |-> <<"acquire", "extract", "gate">>]

\* Mutant of TryBody: the model is called without the length gate.
TryBodyNoGate(kind, file, modelOk) ==
  LET t == AcquireText(kind, file)
      ai == extract_dispatch_info_with_ai(t, modelOk)
  IN [text |-> t, requests |-> ai.requests,
      failure |-> IF ai.raised THEN {"model"} ELSE {},
      reply |-> IF ai.raised THEN ErrorMsg(kind) ELSE ResultMsg,
      pc |-> IF ai.raised THEN "erroring" ELSE "relaying",
      steps |-> <<"acquire", "extract">>]

\* Lines 192-201 / 219-227, run without suspension once the acknowledgement
\* is sent: acquire the text, gate on its length, call the model, and leave
\* the next reply in flight (the notice, the result, or the error notice of
\* the except clause when the model call raised).
TryBody(kind, file, modelOk) ==
  LET t == AcquireText(kind, file)
      ai == extract_dispatch_info_with_ai(t, modelOk)
  IN IF TooShort(t)
     THEN [text |-> t, requests |-> 0, failure |-> {},
           reply |-> NoticeMsg(kind), pc |-> "relaying",
           steps |-> <<"acquire", "gate">>]
     ELSE [text |-> t, requests |-> ai.requests,
           failure |-> IF ai.raised THEN {"model"} ELSE {},
           reply |-> IF ai.raised THEN ErrorMsg(kind) ELSE ResultMsg,
           pc |-> IF ai.raised THEN "erroring" ELSE "relaying",
           steps |-> <<"acquire", "gate", "extract">>]

\* Mutant of Cleanup: the file is left in place.
CleanupSkipped(files, path) == files

\* finally: if os.path.exists(file_path): os.remove(file_path)
Cleanup(files, path) == [files EXCEPT ![path] = NoFile]

\* Lines 185-187 (211-213): get_file and download_to_drive.  On success the
\* attachment is written at file_path, the try block is entered and the
\* acknowledgement is put in flight.  These awaits are outside the try: a
\* failure leaves the handler with the exception.
Download(e) ==
  /\ pc[e] = "new"
  /\ \E ok \in BOOLEAN :
       LET path == FilePath(input[e]) IN
       IF ok
       THEN /\ fs' = [fs EXCEPT ![path] = [owner |-> e, att |-> input[e].att]]
            /\ steps' = [steps EXCEPT ![e] = <<"download">>]
            /\ pending' = [pending EXCEPT ![e] = AckMsg(input[e].kind)]
            /\ pc' = [pc EXCEPT ![e] = "acking"]
            /\ UNCHANGED failed
       ELSE /\ failed' = [failed EXCEPT ![e] = {"download"}]
            /\ pc' = [pc EXCEPT ![e] = "raised"]
            /\ UNCHANGED <<fs, steps, pending>>
  /\ UNCHANGED <<pdf, out, input, text, modelCalls, replies, readFrom>>

\* Line 190 (216) returns or raises, then lines 192-201 run up to the next
\* await.  A failed acknowledgement goes to the except clause, which puts
\* the error notice in flight.
Acknowledge(e) ==
  /\ pc[e] = "acking"
  /\ \E ok \in BOOLEAN, modelOk \in BOOLEAN :
       LET kind == input[e].kind
           file == fs[FilePath(input[e])]
           body == TryBody(kind, file, modelOk)
       IN
       /\ replies' = [replies EXCEPT ![e] = Append(@, [msg |-> pending[e], sent |-> ok])]
       /\ IF ok
          THEN /\ text' = [text EXCEPT ![e] = body.text]
               /\ readFrom' = [readFrom EXCEPT ![e] = file.owner]
               /\ modelCalls' = [modelCalls EXCEPT ![e] = @ + body.requests]
               /\ failed' = [failed EXCEPT ![e] = @ \cup body.failure]
               /\ pending' = [pending EXCEPT ![e] = body.reply]
               /\ pc' = [pc EXCEPT ![e] = body.pc]
               /\ steps' = [steps EXCEPT ![e] = @ \o <<"acknowledge">> \o body.steps]
          ELSE /\ failed' = [failed EXCEPT ![e] = @ \cup {"acknowledge"}]
               /\ pending' = [pending EXCEPT ![e] = ErrorMsg(kind)]
               /\ pc' = [pc EXCEPT ![e] = "erroring"]
               /\ steps' = [steps EXCEPT ![e] = Append(@, "acknowledge")]
               /\ UNCHANGED <<text, readFrom, modelCalls>>
  /\ UNCHANGED <<pdf, out, input, fs>>

\* The finally clause as run by event e on the current directory.
Finally(e) == fs' = Cleanup(fs, FilePath(input[e]))

\* Line 195 / 201 (222 / 227): the notice or the result reply returns, then
\* the finally clause runs; or it raises into the except clause, which puts
\* the error notice in flight.
Relay(e) ==
  /\ pc[e] = "relaying"
  /\ \E ok \in BOOLEAN :
       /\ replies' = [replies EXCEPT ![e] = Append(@, [msg |-> pending[e], sent |-> ok])]
       /\ IF ok
          THEN /\ Finally(e)
               /\ steps' = [steps EXCEPT ![e] = @ \o <<"relay", "cleanup">>]
               /\ pending' = [pending EXCEPT ![e] = "none"]
               /\ pc' = [pc EXCEPT ![e] = "done"]
               /\ UNCHANGED failed
          ELSE /\ failed' = [failed EXCEPT ![e] = @ \cup {"relay"}]
               /\ steps' = [steps EXCEPT ![e] = Append(@, "relay")]
               /\ pending' = [pending EXCEPT ![e] = ErrorMsg(input[e].kind)]
               /\ pc' = [pc EXCEPT ![e] = "erroring"]
               /\ UNCHANGED fs
  /\ UNCHANGED <<pdf, out, input, text, modelCalls, readFrom>>

\* Line 204 (230): the error notice of the except clause returns or raises;
\* either way the finally clause runs.  A raise here leaves the handler.
ErrorReply(e) ==
  /\ pc[e] = "erroring"
  /\ \E ok \in BOOLEAN :
       /\ replies' = [replies EXCEPT ![e] = Append(@, [msg |-> pending[e], sent |-> ok])]
       /\ failed' = [failed EXCEPT ![e] = IF ok THEN @ ELSE @ \cup {"error_reply"}]
       /\ pc' = [pc EXCEPT ![e] = IF ok THEN "done" ELSE "raised"]
  /\ Finally(e)
  /\ steps' = [steps EXCEPT ![e] = @ \o <<"relay", "cleanup">>]
  /\ pending' = [pending EXCEPT ![e] = "none"]
  /\ UNCHANGED <<pdf, out, input, text, modelCalls, readFrom>>

Next ==
  \E e \in Events :
    \/ Download(e)
    \/ Acknowledge(e)
    \/ Relay(e)
    \/ ErrorReply(e)

Spec == Init /\ [][Next]_vars

\* ------------------------------------- extract_text_from_pdf on its own
InitPdf ==
  /\ pdf \in SeqsUpTo(PageSet, MaxPages)
  /\ out = NoOut
  /\ input = [e \in Events |-> CHOOSE i \in Inputs : TRUE]
  /\ fs = [p \in Paths |-> NoFile]
  /\ pc = [e \in Events |-> "new"]
  /\ pending = [e \in Events |-> "none"]
  /\ text = [e \in Events |-> EmptyStr]
  /\ modelCalls = [e \in Events |-> 0]
  /\ replies = [e \in Events |-> <<>>]
  /\ steps = [e \in Events |-> <<>>]
  /\ readFrom = [e \in Events |-> 0]
  /\ failed = [e \in Events |-> {}]

ExtractPdf ==
  /\ ~out.done
  /\ out' = [done |-> TRUE] @@ extract_text_from_pdf(PdfAtt(pdf))
  /\ UNCHANGED <<pdf>>
  /\ UNCHANGED handlerVars

NextPdf == ExtractPdf

SpecPdf == InitPdf /\ [][NextPdf]_vars

\* ======================================================= properties
Finished(e) == pc[e] \in {"done", "raised"}

\* The handler of e got past the download and entered its try block.
EnteredTry(e) == steps[e] # <<>>

Ran(e, step) == \E i \in 1..Len(steps[e]) : steps[e][i] = step

\* e issued the reply m (whether or not the transport sent it).
Replied(e, m) == \E i \in 1..Len(replies[e]) : replies[e][i].msg = m

\* The reply m of e reached the conversation.
Received(e, m) ==
  \E i \in 1..Len(replies[e]) : replies[e][i] = [msg |-> m, sent |-> TRUE]

OwnPath(e) == FilePath(input[e])

\* The attachment e's text acquisition actually read.
ReadAtt(e) ==
  IF readFrom[e] = 0 THEN NoAtt ELSE input[readFrom[e]].att

\* ---- C1
\* C1: once the handling of a document or photo event that created its
\* temporary file has completed (result relayed, gated abort, or an
\* exception in the try block), the file that event created does not exist;
\* a path no handler is working on holds no file.
C1_TempFileGone ==
  /\ \A e \in Events :
       (Finished(e) /\ EnteredTry(e)) => fs[OwnPath(e)].owner # e
  /\ \A p \in Paths :
       (\A e \in Events : OwnPath(e) = p => pc[e] \in {"new", "done", "raised"})
         => fs[p] = NoFile

\* C1 witness: one event left through the except clause with the error
\* notice itself failing, another returned after a gated abort, both had
\* written and read their own file under the same path.
C1_Witness ==
  \E a, b \in Events :
    /\ pc[a] = "raised" /\ EnteredTry(a) /\ readFrom[a] = a
    /\ pc[b] = "done" /\ Received(b, NoticeMsg(input[b].kind)) /\ readFrom[b] = b
    /\ OwnPath(a) = OwnPath(b)

StepRank(step) ==
  CASE step = "download"    -> 1
    [] step = "acknowledge" -> 2
    [] step = "acquire"     -> 3
    [] step = "gate"        -> 4
    [] step = "extract"     -> 5
    [] step = "relay"       -> 6
    [] step = "cleanup"     -> 7

\* C5: within one event the steps run in the order download, acknowledge,
\* acquire, gate, extract, relay, cleanup; text is acquired only after the
\* acknowledgement was sent, the model is called only after the gate passed,
\* and cleanup comes after the event's last reply (until then the handler
\* leaves its file in place).
C5_StepOrder ==
  \A e \in Events :
    /\ \A i \in 1..(Len(steps[e]) - 1) :
         /\ StepRank(steps[e][i]) <= StepRank(steps[e][i + 1])
         /\ (steps[e][i] = steps[e][i + 1]) => steps[e][i] = "relay"
    /\ Ran(e, "acquire") =>
         /\ Ran(e, "acknowledge")
         /\ replies[e][1] = [msg |-> AckMsg(input[e].kind), sent |-> TRUE]
    /\ (Ran(e, "extract") \/ modelCalls[e] > 0) =>
         /\ Ran(e, "gate") /\ Ran(e, "extract")
         /\ ~TooShort(text[e])
    /\ Ran(e, "cleanup") =>
         /\ steps[e][Len(steps[e])] = "cleanup"
         /\ Finished(e) /\ pending[e] = "none"
         /\ Ran(e, "relay")
    /\ (EnteredTry(e) /\ ~Ran(e, "cleanup")) =>
         /\ ~Finished(e)
         /\ (\A o \in Events \ {e} : OwnPath(o) # OwnPath(e))
              => fs[OwnPath(e)].owner = e

\* C5 witness: an event ran all seven steps.
C5_Witness ==
  \E e \in Events :
    steps[e] = <<"download", "acknowledge", "acquire", "gate", "extract",
                 "relay", "cleanup">>

\* ---- C6
\* C6 (as stated): every per-event failure is caught inside the handler and
\* turned into an error message to the user; no exception leaves the handler.
C6_Original ==
  \A e \in Events :
    /\ pc[e] # "raised"
    /\ (pc[e] = "done" /\ failed[e] # {}) => Received(e, ErrorMsg(input[e].kind))

\* ---- C7
\* C7 (as stated): with events interleaving at their awaits, each event owns
\* its temporary file from its creation to its own cleanup (no other event
\* overwrites or deletes it meanwhile) and acquires its text from the file
\* it wrote itself.
C7_Original ==
  \A e \in Events :
    /\ (EnteredTry(e) /\ ~Finished(e)) => fs[OwnPath(e)].owner = e
    /\ Ran(e, "acquire") => readFrom[e] = e

\* ---- C8
\* Neither a text layer nor OCR yields any recognised text from att.
NoRecognisedText(att) ==
  \/ att.kind = "none"
  \/ att.kind = "img" /\ att.ocr \in {"ocrfail", "blank"}
  \/ /\ att.kind = "pdf"
     /\ \A i \in 1..Len(att.pages) :
          /\ att.pages[i].layer \in {"none", "raise"}
          /\ att.pages[i].ocr \in {"rasterfail", "ocrfail", "blank"}

\* C8 (as stated): when nothing is recognised in the attachment read, the
\* acquired text is the empty string, the gate rejects it and the model is
\* not called on it.
C8_Original ==
  \A e \in Events :
    (Ran(e, "acquire") /\ NoRecognisedText(ReadAtt(e)))
      => /\ text[e] = EmptyStr
         /\ TooShort(text[e])
         /\ modelCalls[e] = 0

\* ---- C10
\* C10: a handler issues one completion request when the acquired text
\* passes the gate and none otherwise; a failed request is not repeated, the
\* error notice is the reply relayed for it and no result is relayed.
C10_OneRequest ==
  \A e \in Events :
    /\ modelCalls[e] =
         (IF Ran(e, "acquire") /\ ~TooShort(text[e]) THEN 1 ELSE 0)
    /\ "model" \in failed[e] =>
         /\ ~Replied(e, ResultMsg) /\ pending[e] # ResultMsg
         /\ pc[e] = "erroring" => pending[e] = ErrorMsg(input[e].kind)
         /\ Finished(e) => Replied(e, ErrorMsg(input[e].kind))

\* C10 witness: one event's request failed and its error notice arrived,
\* another's request succeeded and its result arrived.
C10_Witness ==
  \E a, b \in Events :
    /\ pc[a] = "done" /\ "model" \in failed[a] /\ modelCalls[a] = 1
    /\ Received(a, ErrorMsg(input[a].kind))
    /\ pc[b] = "done" /\ modelCalls[b] = 1 /\ Received(b, ResultMsg)

\* ------------------------------------------------ properties of SpecPdf
\* The text layer as read by pdfplumber, before trimming.
TextLayer == DirectText(PdfAtt(pdf))

\* ---- C3
\* C3 (as stated): a PDF whose text layer has at least 100 characters is
\* returned from its text layer (trimmed) and OCR is never invoked.
C3_Original ==
  (out.done /\ StrLen(TextLayer) >= MinTextChars)
    => /\ out.fallback = 0 /\ out.ocrPages = <<>>
       /\ out.text = Strip(TextLayer)

\* C3 (amended): a PDF whose text layer has at least 100 characters after
\* leading and trailing whitespace is trimmed is returned from its text
\* layer (trimmed) and OCR is never invoked.
C3_Amended ==
  (out.done /\ StrLen(Strip(TextLayer)) >= MinTextChars)
    => /\ out.fallback = 0 /\ out.ocrPages = <<>>
       /\ out.text = Strip(TextLayer)

\* C3 witness: a text layer of exactly 100 characters on one page, the
\* other pages without text, was returned.
C3_Witness ==
  /\ out.done /\ Len(pdf) >= 2
  /\ StrLen(Strip(TextLayer)) = MinTextChars
  /\ out.text = Strip(TextLayer)

\* ---- C4
RECURSIVE OcrBlocks(_, _)
\* The page blocks "\n--- Page i ---\n<ocr text of page i>\n", i = 1..n.
OcrBlocks(pages, n) ==
  IF n = 0 THEN EmptyStr
  ELSE Cat(OcrBlocks(pages, n - 1),
           PageBlock(n, IF pages[n].ocr \in {"blank", "ocrfail", "rasterfail"}
                        THEN EmptyStr
                        ELSE <<Txt("ocr", n, 50)>>))

\* C4 (as stated): a PDF whose text layer has fewer than 100 characters is
\* OCR'd exactly once on every page, and the result is the pages' OCR texts
\* in ascending order, each under its "--- Page N ---" marker, trimmed.
C4_Original ==
  (out.done /\ StrLen(TextLayer) < MinTextChars)
    => /\ out.fallback = 1
       /\ out.ocrPages = [i \in 1..Len(pdf) |-> i]
       /\ out.text = Strip(OcrBlocks(pdf, Len(pdf)))

\* ---- C9
\* C9 (as stated): a page that raises costs only its own text: every other
\* page's text-layer text is in a result taken from the text layer, and
\* every other page's marker and OCR text is in a result taken from OCR.
C9_Original ==
  out.done =>
    \A i \in 1..Len(pdf) :
      /\ (out.fallback = 0 /\ pdf[i].layer # "raise")
           => \A k \in 1..Len(LayerText(pdf[i].layer, i)) :
                LayerText(pdf[i].layer, i)[k].c = "layer"
                  => HasChunk(out.text, LayerText(pdf[i].layer, i)[k])
      /\ (out.fallback = 1 /\ pdf[i].ocr # "rasterfail")
           => /\ HasChunk(out.text, Marker(i))
              /\ pdf[i].ocr = "text" => HasChunk(out.text, Txt("ocr", i, 50))

====
